---- MODULE Spec2Model ----
(***************************************************************************)
(* Model of src/main.py (MacroMicro chart analyst, a Streamlit script).     *)
(*                                                                         *)
(* Text is modelled as a sequence of tokens: one token per digit, one for  *)
(* "/", and one for each literal chunk the code looks for or builds        *)
(* ("macromicro.me", "charts", "collections", ...).  Python values that    *)
(* may be None are tagged records; JSON values are tagged records as well, *)
(* so that a subscript can fail the way Python's does (KeyError on a       *)
(* missing key, TypeError on a value that is not subscriptable).           *)
(***************************************************************************)
EXTENDS Integers, Sequences, FiniteSets, TLC

VARIABLES
    chart_id,       \* st.session_state.chart_id
    series_info,    \* st.session_state.series_info
    image_bytes,    \* st.session_state.image_bytes
    messages,       \* st.session_state.messages
    last,           \* what the last run of main() did (widget fired, I/O issued, errors shown)
    arg,            \* argument of the function under test (function-level specifications)
    ret             \* its return value

vars == <<chart_id, series_info, image_bytes, messages, last, arg, ret>>

sessionVars == <<chart_id, series_info, image_bytes, messages, last>>

(***************************************************************************)
(* Bounds of the model.                                                    *)
(***************************************************************************)
MaxSegs == 4        \* path segments of an enumerated URL
MaxAffix == 3       \* segments before / after a URL of one of the two documented forms
MaxSeries == 2      \* entries of seriesConfigs and of series in an enumerated payload
MaxVals == 3        \* values of one series in an enumerated payload
MaxMessages == 4    \* no further question once the transcript holds this many entries

(***************************************************************************)
(* Python values.                                                          *)
(***************************************************************************)
None == [t |-> "None"]
Str(s) == [t |-> "str", v |-> s]
Bytes(b) == [t |-> "bytes", v |-> b]
Dict(f) == [t |-> "dict", v |-> f]
List(s) == [t |-> "list", v |-> s]
EmptyDict == Dict(<<>>)

NotRun == [t |-> "not run"]

\* Python truthiness of the values the script tests with `if x:` / `if not x:`.
Truthy(x) ==
    CASE x.t = "None" -> FALSE
      [] x.t = "str" -> Len(x.v) > 0
      [] x.t = "bytes" -> Len(x.v) > 0
      [] x.t = "dict" -> DOMAIN x.v # {}
      [] x.t = "list" -> Len(x.v) > 0
      [] OTHER -> TRUE

(***************************************************************************)
(* What one run of main() did, as seen from outside.                       *)
(***************************************************************************)
\* What the GET came to: a RequestException (transport, timeout, HTTP
\* status, undecodable body) or a response with a body.
HttpError == [ok |-> FALSE]
HttpOk(body) == [ok |-> TRUE, body |-> body]

NoUrl == <<>>
NoRequest == <<>>

Ran(op, input, id, dataUrl, dataResp, imageUrl, imageResp, errs, exc, called, req) ==
    [ op |-> op,                    \* "load": the Load Chart button; "question": the chat input
      input |-> input,              \* the URL in the text input / the question typed
      id |-> id,                    \* what extract_chart_id returned (None on a question)
      data_fetch |-> dataUrl,       \* the URL fetch_chart_data requested (NoUrl: not called)
      data_response |-> dataResp,
      image_fetch |-> imageUrl,     \* the URL fetch_image_bytes requested (NoUrl: not called)
      image_response |-> imageResp,
      errors |-> errs,              \* st.error messages of this run
      raised |-> exc,               \* the exception that ended the run ("none" when it returned)
      analyze |-> called,           \* analyze_chart was called
      request |-> req ]             \* the contents it sent to the model (NoRequest: none)

\* No widget has fired yet.
NotYet ==
    Ran("none", <<>>, None, NoUrl, HttpError, NoUrl, HttpError, <<>>, "none", FALSE, NoRequest)

(***************************************************************************)
(* extract_chart_id: two regular expressions tried in order with re.search *)
(***************************************************************************)
HOST == "macromicro.me"
SLASH == "/"
DigitTokens == {"0", "1", "2", "3", "4", "5", "6", "7", "8", "9"}

IsDigit(tok) == tok \in DigitTokens
NotSlash(tok) == tok # SLASH

\* s[p..] starts with the literal lit
LitAt(s, p, lit) ==
    /\ p + Len(lit) - 1 <= Len(s)
    /\ \A k \in 1..Len(lit) : s[p + k - 1] = lit[k]

\* Greedy \d+ from position p: the last position of the maximal run of digits
\* starting at p (p - 1 when s[p] is no digit).
RECURSIVE DigitRunEnd(_, _)
DigitRunEnd(s, p) ==
    IF p <= Len(s) /\ IsDigit(s[p]) THEN DigitRunEnd(s, p + 1) ELSE p - 1

\* Greedy [^/]+ from position p: the last position of the maximal run of
\* tokens other than "/".
RECURSIVE SegRunEnd(_, _)
SegRunEnd(s, p) ==
    IF p <= Len(s) /\ NotSlash(s[p]) THEN SegRunEnd(s, p + 1) ELSE p - 1

NoMatch == [matched |-> FALSE, group |-> <<>>]
Match(g) == [matched |-> TRUE, group |-> g]

\* r'macromicro\.me/charts/(\d+)' anchored at p.
ChartsPatternAt(s, p) ==
    LET d == p + 4
        e == DigitRunEnd(s, d)
    IN  IF LitAt(s, p, <<HOST, SLASH, "charts", SLASH>>) /\ e >= d
        THEN Match(SubSeq(s, d, e))
        ELSE NoMatch

\* Mutant of CollectionsPatternAt: the capture group put on the first \d+
\* (the collection id) instead of the last.
CollectionsPatternAt_FirstGroup(s, p) ==
    LET d1 == p + 4
        e1 == DigitRunEnd(s, d1)
        g1 == e1 + 2
        e2 == SegRunEnd(s, g1)
        d3 == e2 + 2
        e3 == DigitRunEnd(s, d3)
    IN  IF /\ LitAt(s, p, <<HOST, SLASH, "collections", SLASH>>)
           /\ e1 >= d1
           /\ LitAt(s, e1 + 1, <<SLASH>>)
           /\ e2 >= g1
           /\ LitAt(s, e2 + 1, <<SLASH>>)
           /\ e3 >= d3
        THEN Match(SubSeq(s, d1, e1))
        ELSE NoMatch

\* r'macromicro\.me/collections/\d+/[^/]+/(\d+)' anchored at p.  The first \d+
\* must reach a "/", so it is the whole maximal run; [^/]+ must reach a "/",
\* so it is the whole segment; backtracking finds no other match.
CollectionsPatternAt(s, p) ==
    LET d1 == p + 4
        e1 == DigitRunEnd(s, d1)
        g1 == e1 + 2
        e2 == SegRunEnd(s, g1)
        d3 == e2 + 2
        e3 == DigitRunEnd(s, d3)
    IN  IF /\ LitAt(s, p, <<HOST, SLASH, "collections", SLASH>>)
           /\ e1 >= d1
           /\ LitAt(s, e1 + 1, <<SLASH>>)
           /\ e2 >= g1
           /\ LitAt(s, e2 + 1, <<SLASH>>)
           /\ e3 >= d3
        THEN Match(SubSeq(s, d3, e3))
        ELSE NoMatch

PatternAt(pat, s, p) ==
    IF pat = "charts" THEN ChartsPatternAt(s, p) ELSE CollectionsPatternAt(s, p)

\* re.search(pattern, url): the match at the leftmost position that has one.
RECURSIVE SearchFrom(_, _, _)
SearchFrom(pat, s, p) ==
    IF p > Len(s) THEN NoMatch
    ELSE IF PatternAt(pat, s, p).matched THEN PatternAt(pat, s, p)
    ELSE SearchFrom(pat, s, p + 1)

re_search(pat, s) == SearchFrom(pat, s, 1)

patterns == <<"charts", "collections">>

RECURSIVE FirstPattern(_, _)
FirstPattern(url, k) ==
    IF k > Len(patterns) THEN None
    ELSE IF re_search(patterns[k], url).matched
         THEN Str(re_search(patterns[k], url).group)
         ELSE FirstPattern(url, k + 1)

extract_chart_id(url) == FirstPattern(url, 1)

(***************************************************************************)
(* URLs handed to extract_chart_id in the function-level specification.    *)
(***************************************************************************)
Segments == { <<HOST>>, <<"charts">>, <<"collections">>, <<"9">>, <<"1", "2">>, <<"s">> }
DigitSegments == { <<"9">>, <<"1", "2">> }

RECURSIVE Join(_)
Join(segs) ==
    IF Len(segs) = 0 THEN <<>>
    ELSE IF Len(segs) = 1 THEN segs[1]
    ELSE segs[1] \o <<SLASH>> \o Join(Tail(segs))

SegSeqs(n) == UNION { [1..k -> Segments] : k \in 0..n }

\* '<before>/charts/<digits>/<after>'
ChartsForm(before, digits, after) ==
    Join(before \o << <<"charts">>, digits >> \o after)

\* '<before>/collections/<digits>/<slug>/<digits>/<after>'
CollectionsForm(before, d1, slug, d2, after) ==
    Join(before \o << <<"collections">>, d1, slug, d2 >> \o after)

\* Segments around a URL of one of the two forms: up to n on one side, at
\* most the host on the other.
ShortAffixes == { <<>>, << <<HOST>> >> }
AffixPairs(n) == (SegSeqs(n) \X ShortAffixes) \cup (ShortAffixes \X SegSeqs(n))
Slugs == { <<"s">>, <<"1", "2">> }
IdPairs == { << <<"9">>, <<"1", "2">> >>, << <<"1", "2">>, <<"9">> >> }

\* Every URL of up to segs segments, and the two forms with up to affix
\* segments around them.
UrlInputs(segs, affix) ==
    { Join(ss) : ss \in SegSeqs(segs) }
    \cup { ChartsForm(ba[1], d, ba[2]) : ba \in AffixPairs(affix), d \in DigitSegments }
    \cup { CollectionsForm(ba[1], ids[1], sl, ids[2], ba[2]) :
              ba \in AffixPairs(affix), ids \in IdPairs, sl \in Slugs }

IdleSession ==
    /\ chart_id = None
    /\ series_info = <<>>
    /\ image_bytes = None
    /\ messages = <<>>
    /\ last = NotYet

UrlInit ==
    /\ IdleSession
    /\ arg \in UrlInputs(MaxSegs, MaxAffix)
    /\ ret = NotRun

CallExtractChartId ==
    /\ ret = NotRun
    /\ ret' = extract_chart_id(arg)
    /\ UNCHANGED <<sessionVars, arg>>

UrlNext == CallExtractChartId

SpecUrl == UrlInit /\ [][UrlNext]_vars

(***************************************************************************)
(* get_series_info: walk the chart JSON, last two values of every series.  *)
(***************************************************************************)
Ok(x) == [ok |-> TRUE, v |-> x]
Raise(e, k) == [ok |-> FALSE, exc |-> e, key |-> k]

\* obj[key] for a string key: KeyError on a dict without the key, TypeError
\* on None and on a list.
Subscript(obj, key) ==
    IF obj.t = "dict"
    THEN IF key \in DOMAIN obj.v THEN Ok(obj.v[key]) ELSE Raise("KeyError", key)
    ELSE Raise("TypeError", key)

\* obj[k1][k2]...: the first failing subscript raises.
RECURSIVE SubscriptPath(_, _)
SubscriptPath(obj, keys) ==
    IF Len(keys) = 0 THEN Ok(obj)
    ELSE LET r == Subscript(obj, Head(keys))
         IN  IF r.ok THEN SubscriptPath(r.v, Tail(keys)) ELSE r

\* f'c:{chart_id}'
ChartKey(id) == <<"c:">> \o id

\* str(n) for the small numbers the model formats
DecimalDigits == <<"0", "1", "2", "3", "4", "5", "6", "7", "8", "9">>
str(n) == IF n \in 0..(Len(DecimalDigits) - 1) THEN <<DecimalDigits[n + 1]>> ELSE <<"10+">>

\* f'Series {i+1}'
DefaultName(i) == <<"Series ">> \o str(i + 1)

\* config.get('name_tc', f'Series {i+1}'): AttributeError unless config is a dict
ConfigName(config, i) ==
    IF config.t # "dict" THEN Raise("AttributeError", <<"get">>)
    ELSE IF <<"name_tc">> \in DOMAIN config.v THEN Ok(config.v[<<"name_tc">>])
    ELSE Ok(DefaultName(i))

\* Mutant of latest_two: the first two values instead of the last two.
latest_two_FirstTwo(vals) ==
    IF Len(vals) >= 2 THEN SubSeq(vals, 1, 2) ELSE vals

\* series_data[i][-2:] if len(series_data[i]) >= 2 else series_data[i]
latest_two(vals) ==
    IF Len(vals) >= 2 THEN SubSeq(vals, Len(vals) - 1, Len(vals)) ELSE vals

\* One turn of `for i, config in enumerate(series_configs)` (i counts from 0),
\* then the rest of the loop; result is the list built so far.
RECURSIVE SeriesLoop(_, _, _, _)
SeriesLoop(configs, series_data, i, result) ==
    IF i >= Len(configs) THEN Ok(result)
    ELSE LET name == ConfigName(configs[i + 1], i)
         IN  IF ~name.ok THEN name
             ELSE IF series_data.t \notin {"list", "dict"} THEN Raise("TypeError", <<"len">>)
             ELSE IF series_data.t = "dict"
                  THEN IF i < Cardinality(DOMAIN series_data.v)
                       THEN Raise("KeyError", str(i))
                       ELSE SeriesLoop(configs, series_data, i + 1, result)
             ELSE IF i < Len(series_data.v)
                  THEN IF series_data.v[i + 1].t # "list" THEN Raise("TypeError", <<"len">>)
                       ELSE SeriesLoop(configs, series_data, i + 1,
                                Append(result, <<name.v, latest_two(series_data.v[i + 1].v)>>))
             ELSE SeriesLoop(configs, series_data, i + 1, result)

\* enumerate(series_configs): a list is walked; None is not iterable; a dict
\* yields its keys, strings, which have no .get
SeriesBody(series_configs, series_data) ==
    CASE series_configs.t = "list" -> SeriesLoop(series_configs.v, series_data, 0, <<>>)
      [] series_configs.t = "dict" ->
            IF DOMAIN series_configs.v = {} THEN Ok(<<>>)
            ELSE Raise("AttributeError", <<"get">>)
      [] OTHER -> Raise("TypeError", <<"iter">>)

\* The body of the try block, lines 46-56.
SeriesTry(data, id) ==
    LET chart_data == SubscriptPath(data, << <<"data">>, ChartKey(id) >>)
    IN  IF ~chart_data.ok THEN chart_data
        ELSE LET series_configs ==
                     SubscriptPath(chart_data.v,
                         << <<"info">>, <<"chart_config">>, <<"seriesConfigs">> >>)
             IN  IF ~series_configs.ok THEN series_configs
                 ELSE LET series_data == Subscript(chart_data.v, <<"series">>)
                      IN  IF ~series_data.ok THEN series_data
                          ELSE SeriesBody(series_configs.v, series_data.v)

\* Mutant of Caught: the except clause names IndexError only.
Caught_IndexErrorOnly(exc) == exc \in {"IndexError"}

\* except (KeyError, IndexError)
Caught(exc) == exc \in {"KeyError", "IndexError"}

Returned(x, errs) == [raised |-> "none", value |-> x, errors |-> errs]
Raised(e, errs) == [raised |-> e, value |-> <<>>, errors |-> errs]

\* The outcome of a call: the value returned or the exception raised to the
\* caller, and the messages shown with st.error.
get_series_info(data, id) ==
    LET r == SeriesTry(data, id)
    IN  IF r.ok THEN Returned(r.v, <<>>)
        ELSE IF Caught(r.exc)
             THEN Returned(<<>>, << <<"Failed to parse chart data", r.key>> >>)
             ELSE Raised(r.exc, <<>>)

(***************************************************************************)
(* Chart payloads handed to get_series_info.                               *)
(***************************************************************************)
Null == None
Ids == { <<"4", "4", "4">>, <<"7">> }

K(name) == <<name>>

NamedConfig == Dict(K("name_tc") :> <<"CPI">> @@ K("id") :> <<"1">>)
UnnamedConfig == Dict(K("id") :> <<"2">>)
Configs == { NamedConfig, UnnamedConfig }

\* value lists: 1, 2, ..., n, oldest first
ValueLists(maxVals) == { [k \in 1..n |-> k] : n \in 0..maxVals }

ConfigSeqs(maxSeries) == UNION { [1..n -> Configs] : n \in 0..maxSeries }
SeriesSeqs(maxSeries, maxVals) ==
    UNION { [1..n -> { List(vs) : vs \in ValueLists(maxVals) }] : n \in 0..maxSeries }

ChartInfo(cfgs) ==
    Dict(K("chart_config") :> Dict(K("seriesConfigs") :> cfgs @@ K("type") :> <<"line">>))

Payload(key, info, ser) ==
    Dict(K("data") :> Dict(ChartKey(key) :> Dict(K("info") :> info @@ K("series") :> ser))
         @@ K("success") :> 1)

WellFormed(key, cfgs, ser) == Payload(key, ChartInfo(List(cfgs)), List(ser))

WellFormedPayloads(maxSeries, maxVals) ==
    { WellFormed(key, cfgs, ser) :
        key \in Ids, cfgs \in ConfigSeqs(maxSeries), ser \in SeriesSeqs(maxSeries, maxVals) }

\* One expected key left out of an otherwise well-formed payload.
MissingKeys == { "data", "c:id", "info", "chart_config", "seriesConfigs", "series" }

Without(key, cfgs, ser, missing) ==
    CASE missing = "data" -> Dict(K("success") :> 0)
      [] missing = "c:id" -> Dict(K("data") :> EmptyDict @@ K("success") :> 1)
      [] missing = "info" ->
            Dict(K("data") :> Dict(ChartKey(key) :> Dict(K("series") :> List(ser))))
      [] missing = "chart_config" ->
            Payload(key, Dict(K("name") :> <<"x">>), List(ser))
      [] missing = "seriesConfigs" ->
            Payload(key, Dict(K("chart_config") :> Dict(K("type") :> <<"line">>)), List(ser))
      [] missing = "series" ->
            Dict(K("data") :> Dict(ChartKey(key) :> Dict(K("info") :> ChartInfo(List(cfgs)))))

MissingKeyPayloads(maxSeries, maxVals) ==
    { Without(<<"4", "4", "4">>, cfgs, ser, m) :
        cfgs \in ConfigSeqs(maxSeries), ser \in SeriesSeqs(maxSeries, maxVals),
        m \in MissingKeys }

\* A JSON null where an object or a list is expected.
NullPlaces == { "info", "seriesConfigs", "series", "config", "values" }

WithNull(key, cfgs, ser, place) ==
    CASE place = "info" -> Payload(key, Null, List(ser))
      [] place = "seriesConfigs" ->
            Payload(key, Dict(K("chart_config") :> Dict(K("seriesConfigs") :> Null)), List(ser))
      [] place = "series" -> Payload(key, ChartInfo(List(cfgs)), Null)
      [] place = "config" -> Payload(key, ChartInfo(List(<<Null>> \o cfgs)), List(ser))
      [] place = "values" -> Payload(key, ChartInfo(List(cfgs)), List(<<Null>> \o ser))

NullPayloads(maxSeries, maxVals) ==
    { WithNull(<<"4", "4", "4">>, cfgs, ser, pl) :
        cfgs \in ConfigSeqs(maxSeries), ser \in SeriesSeqs(maxSeries, maxVals),
        pl \in NullPlaces }

SeriesInputs(maxSeries, maxVals) ==
    [ data : WellFormedPayloads(maxSeries, maxVals)
                \cup MissingKeyPayloads(maxSeries, maxVals)
                \cup NullPayloads(maxSeries, maxVals),
      chart_id : Ids ]

SeriesInit ==
    /\ IdleSession
    /\ arg \in SeriesInputs(MaxSeries, MaxVals)
    /\ ret = NotRun

CallGetSeriesInfo ==
    /\ ret = NotRun
    /\ ret' = get_series_info(arg.data, arg.chart_id)
    /\ UNCHANGED <<sessionVars, arg>>

SeriesNext == CallGetSeriesInfo

SpecSeries == SeriesInit /\ [][SeriesNext]_vars

(***************************************************************************)
(* get_preview_image_url, the two fetches, format_series_info and          *)
(* analyze_chart.                                                          *)
(***************************************************************************)
SuffixLen == 3      \* chart_id[-3:]
ZfillWidth == 3     \* .zfill(3)

\* s[-n:]
LastN(s, n) == IF Len(s) <= n THEN s ELSE SubSeq(s, Len(s) - n + 1, Len(s))

\* s.zfill(w) for a string of digits
RECURSIVE zfill(_, _)
zfill(s, w) == IF Len(s) >= w THEN s ELSE zfill(<<"0">> \o s, w)

get_preview_image_url(id) ==
    <<"https://cdn.macromicro.me/files/charts/">> \o zfill(LastN(id, SuffixLen), ZfillWidth)
        \o <<SLASH>> \o id \o <<"-tc.png">>

\* f"{st.secrets['PROXY_URL']}https://www.macromicro.me/charts/data/{chart_id}"
proxy_url(id) == <<"PROXY_URL", "https://www.macromicro.me/charts/data/">> \o id

\* fetch_chart_data: the value returned and the messages shown with st.error
fetch_chart_data(id, response) ==
    IF response.ok
    THEN [value |-> response.body, errors |-> <<>>]
    ELSE [value |-> None, errors |-> << <<"Failed to fetch chart data", proxy_url(id)>> >>]

\* fetch_image_bytes
fetch_image_bytes(url, response) ==
    IF response.ok
    THEN [value |-> Bytes(response.body), errors |-> <<>>]
    ELSE [value |-> None, errors |-> << <<"Failed to fetch image", url>> >>]

\* One bullet of format_series_info; a series without values gives no line.
SeriesLine(name, values) ==
    CASE Len(values) >= 2 -> << <<"- ", name, ": ", values[1], " -> ", values[2]>> >>
      [] Len(values) = 1 -> << <<"- ", name, ": ", values[1]>> >>
      [] OTHER -> <<>>

RECURSIVE SeriesLines(_)
SeriesLines(info) ==
    IF Len(info) = 0 THEN <<>>
    ELSE SeriesLine(info[1][1], info[1][2]) \o SeriesLines(Tail(info))

\* "\n".join(lines), kept as the list of lines
format_series_info(info) ==
    << <<"Chart Data (Latest Two Values):">> >> \o SeriesLines(info)

\* types.Part.from_bytes(data=image_bytes, mime_type="image/png")
image_part(bytes) == [data |-> bytes, mime_type |-> "image/png"]

\* Mutant of analyze_chart_contents: the transcript is sent along.
analyze_chart_contents_WithHistory(bytes, info, user_prompt) ==
    <<image_part(bytes), format_series_info(info), user_prompt>> \o messages

\* contents of the generate_content call of analyze_chart
analyze_chart_contents(bytes, info, user_prompt) ==
    <<image_part(bytes), format_series_info(info), user_prompt>>

(***************************************************************************)
(* main: one run of the script per widget event.                           *)
(***************************************************************************)
\* Mutant of ResetChat: the transcript survives a reload.
ResetChat_Keep(msgs) == msgs

\* st.session_state.messages = []  # Reset chat for new chart
ResetChat(msgs) == <<>>

\* Mutant of InvalidUrl: the transcript is cleared before the URL is judged.
InvalidUrl_ClearsChat(s, url) ==
    [ s EXCEPT !.messages = <<>>,
               !.last = Ran("load", url, None, NoUrl, HttpError, NoUrl, HttpError,
                            << <<"Invalid URL. Please enter a valid MacroMicro chart URL.">> >>,
                            "none", FALSE, NoRequest) ]

\* The else branch of `if chart_id:` (line 180): only the error is shown.
InvalidUrl(s, url) ==
    [ s EXCEPT !.last = Ran("load", url, None, NoUrl, HttpError, NoUrl, HttpError,
                            << <<"Invalid URL. Please enter a valid MacroMicro chart URL.">> >>,
                            "none", FALSE, NoRequest) ]

\* Lines 165-178 for an identifier id; dataResp and imageResp are what the two
\* HTTP calls come to.
LoadChart(s, url, id, dataResp, imageResp) ==
    LET s1 == [ s EXCEPT !.chart_id = id, !.messages = ResetChat(s.messages) ]
        data == fetch_chart_data(id.v, dataResp)
        parsed == IF Truthy(data.value)
                  THEN get_series_info(data.value, id.v)
                  ELSE Returned(s.series_info, <<>>)
        image_url == get_preview_image_url(id.v)
        image == fetch_image_bytes(image_url, imageResp)
    IN  IF parsed.raised # "none"
        THEN \* the exception leaves main(): the run ends before the image fetch
             [ s1 EXCEPT !.last = Ran("load", url, id, proxy_url(id.v), dataResp, NoUrl,
                                      HttpError, data.errors, parsed.raised, FALSE, NoRequest) ]
        ELSE [ s1 EXCEPT !.series_info = parsed.value,
                         !.image_bytes = image.value,
                         !.last = Ran("load", url, id, proxy_url(id.v), dataResp, image_url,
                                      imageResp, data.errors \o parsed.errors \o image.errors,
                                      "none", FALSE, NoRequest) ]

\* if st.button("Load Chart"): lines 162-180
OnLoadChart(s, url, dataResp, imageResp) ==
    LET id == extract_chart_id(url)
    IN  IF Truthy(id) THEN LoadChart(s, url, id, dataResp, imageResp) ELSE InvalidUrl(s, url)

\* Mutant of ChatAvailable: the early return of line 203 is missing.
ChatAvailable_Always(id) == TRUE

\* `if not st.session_state.chart_id: ... return` (lines 201-203)
ChatAvailable(id) == Truthy(id)

UserTurn(prompt) == [role |-> "user", content |-> prompt]
AssistantTurn(content) == [role |-> "assistant", content |-> content]

\* f"Error generating response: {e}"
error_msg(e) == <<"Error generating response: ", e>>

\* Mutant of Respond: an exception of the analysis call leaves no turn.
Respond_DropsError(outcome) ==
    IF outcome.kind = "text" THEN <<AssistantTurn(outcome.text)>> ELSE <<>>

\* Lines 220-233: what is appended after the user turn.  outcome is what the
\* try block came to: the model's text, or an exception raised by
\* get_gemini_client or by analyze_chart.
Respond(outcome) ==
    IF outcome.kind = "text"
    THEN <<AssistantTurn(outcome.text)>>
    ELSE <<AssistantTurn(error_msg(outcome.kind))>>

\* if prompt := st.chat_input(...): lines 201-233
OnChatInput(s, prompt, outcome) ==
    IF ~ChatAvailable(s.chart_id)
    THEN [ s EXCEPT !.last = Ran("question", prompt, None, NoUrl, HttpError, NoUrl,
                                 HttpError, <<>>, "none", FALSE, NoRequest) ]
    ELSE LET called == outcome.kind # "client error"
         IN  [ s EXCEPT !.messages = s.messages \o <<UserTurn(prompt)>> \o Respond(outcome),
                        !.last = Ran("question", prompt, None, NoUrl, HttpError, NoUrl,
                                     HttpError,
                                     IF outcome.kind = "text" THEN <<>>
                                     ELSE <<error_msg(outcome.kind)>>,
                                     "none", called,
                                     IF called
                                     THEN analyze_chart_contents(s.image_bytes,
                                              s.series_info, prompt)
                                     ELSE NoRequest) ]

(***************************************************************************)
(* The session: what the user and the network can do.                      *)
(***************************************************************************)
Session ==
    [ chart_id |-> chart_id, series_info |-> series_info, image_bytes |-> image_bytes,
      messages |-> messages, last |-> last ]

Becomes(s) ==
    /\ chart_id' = s.chart_id
    /\ series_info' = s.series_info
    /\ image_bytes' = s.image_bytes
    /\ messages' = s.messages
    /\ last' = s.last

ExampleUrl ==
    <<"https://www.", HOST, SLASH, "charts", SLASH, "4", "4", "4", SLASH, "us-mm-gspc">>
CollectionUrl ==
    <<"https://www.", HOST, SLASH, "collections", SLASH, "3", SLASH, "slug", SLASH, "7",
      SLASH, "x">>
OtherHostUrl == <<"https://example.com", SLASH, "charts", SLASH, "4", "4", "4">>
SessionUrls == { ExampleUrl, CollectionUrl, OtherHostUrl }

SessionBodies ==
    { WellFormed(<<"4", "4", "4">>, <<NamedConfig, UnnamedConfig>>,
                 <<List(<<1, 2, 3>>), List(<<1>>)>>),
      WellFormed(<<"7">>, <<UnnamedConfig>>, <<List(<<1, 2>>)>>),
      Without(<<"4", "4", "4">>, <<NamedConfig>>, <<List(<<1, 2>>)>>, "series"),
      WithNull(<<"4", "4", "4">>, <<NamedConfig>>, <<List(<<1, 2>>)>>, "info"),
      EmptyDict }

DataResponses == { HttpError } \cup { HttpOk(b) : b \in SessionBodies }

Questions == { <<"q1">>, <<"q2">> }
Outcomes ==
    { [kind |-> "text", text |-> <<"answer">>],
      [kind |-> "client error"],        \* get_gemini_client raised
      [kind |-> "api error"] }          \* analyze_chart raised

Init ==
    /\ chart_id = None
    /\ series_info = <<>>
    /\ image_bytes = None
    /\ messages = <<>>
    /\ last = NotYet
    /\ arg = NotRun
    /\ ret = NotRun

ClickLoadChart ==
    \E url \in SessionUrls, dataResp \in DataResponses, imageOk \in BOOLEAN :
        LET imageResp == IF imageOk /\ Truthy(extract_chart_id(url))
                         THEN HttpOk(get_preview_image_url(extract_chart_id(url).v))
                         ELSE HttpError
        IN  /\ Becomes(OnLoadChart(Session, url, dataResp, imageResp))
            /\ UNCHANGED <<arg, ret>>

SubmitQuestion ==
    \E prompt \in Questions, outcome \in Outcomes :
        /\ Len(messages) < MaxMessages
        /\ Becomes(OnChatInput(Session, prompt, outcome))
        /\ UNCHANGED <<arg, ret>>

Next == ClickLoadChart \/ SubmitQuestion

Spec == Init /\ [][Next]_vars

(***************************************************************************)
(* Claims about get_series_info (checked under SpecSeries).                *)
(***************************************************************************)
Has(obj, key) == obj.t = "dict" /\ key \in DOMAIN obj.v

\* The per-chart object of a payload, when the payload has one for this id.
HasChartData(data, id) ==
    Has(data, K("data")) /\ Has(data.v[K("data")], ChartKey(id))
ChartDataOf(data, id) == data.v[K("data")].v[ChartKey(id)]

HasConfigs(cd) ==
    /\ Has(cd, K("info"))
    /\ Has(cd.v[K("info")], K("chart_config"))
    /\ Has(cd.v[K("info")].v[K("chart_config")], K("seriesConfigs"))
ConfigsOf(cd) == cd.v[K("info")].v[K("chart_config")].v[K("seriesConfigs")]

IsListOf(x, kind) == x.t = "list" /\ \A k \in 1..Len(x.v) : x.v[k].t = kind

IsWellFormed(data, id) ==
    /\ HasChartData(data, id)
    /\ HasConfigs(ChartDataOf(data, id))
    /\ Has(ChartDataOf(data, id), K("series"))
    /\ IsListOf(ConfigsOf(ChartDataOf(data, id)), "dict")
    /\ IsListOf(ChartDataOf(data, id).v[K("series")], "list")

\* Some key of the path is missing from the object that should hold it.
RECURSIVE KeyMissing(_, _)
KeyMissing(obj, path) ==
    /\ Len(path) > 0
    /\ obj.t = "dict"
    /\ \/ Head(path) \notin DOMAIN obj.v
       \/ KeyMissing(obj.v[Head(path)], Tail(path))

\* The first subscript of lines 46-48 that fails does so for a missing key.
LacksKey(data, id) ==
    \/ KeyMissing(data, <<K("data"), ChartKey(id)>>)
    \/ /\ HasChartData(data, id)
       /\ \/ KeyMissing(ChartDataOf(data, id),
                         <<K("info"), K("chart_config"), K("seriesConfigs")>>)
          \/ /\ HasConfigs(ChartDataOf(data, id))
             /\ KeyMissing(ChartDataOf(data, id), <<K("series")>>)

Min(a, b) == IF a <= b THEN a ELSE b

\* C8: on a well-formed payload get_series_info returns, in configuration
\* order, one (name, values) pair per configured index that has a value list
\* and skips the others; values are the last two of the list (the whole list
\* when shorter), oldest first, never more than two; the name is name_tc or
\* 'Series <i+1>'.
C8_SeriesExtraction ==
    (ret # NotRun /\ IsWellFormed(arg.data, arg.chart_id)) =>
        LET cfgs == ConfigsOf(ChartDataOf(arg.data, arg.chart_id)).v
            ser == ChartDataOf(arg.data, arg.chart_id).v[K("series")].v
        IN  /\ ret.raised = "none"
            /\ ret.errors = <<>>
            /\ Len(ret.value) = Min(Len(cfgs), Len(ser))
            /\ \A k \in 1..Len(ret.value) :
                 LET name == ret.value[k][1]
                     values == ret.value[k][2]
                     all == ser[k].v
                 IN  /\ name = IF K("name_tc") \in DOMAIN cfgs[k].v
                               THEN cfgs[k].v[K("name_tc")]
                               ELSE <<"Series ", DecimalDigits[k + 1]>>
                     /\ Len(values) = Min(2, Len(all))
                     /\ \A j \in 1..Len(values) :
                          values[j] = all[Len(all) - Len(values) + j]

\* Two configured series, the second without a value list and skipped; the
\* first has more than two values.
C8_Witness ==
    /\ ret # NotRun
    /\ IsWellFormed(arg.data, arg.chart_id)
    /\ Len(ConfigsOf(ChartDataOf(arg.data, arg.chart_id)).v) = 2
    /\ Len(ChartDataOf(arg.data, arg.chart_id).v[K("series")].v) = 1
    /\ Len(ChartDataOf(arg.data, arg.chart_id).v[K("series")].v[1].v) > 2
    /\ Len(ret.value) = 1
    /\ Len(ret.value[1][2]) = 2

\* C9: a payload that lacks 'data', 'c:<identifier>', 'info', 'chart_config',
\* 'seriesConfigs' or 'series' is one parse failure: it is reported once, the
\* result is the empty list and nothing is raised to the caller.
C9_MissingKeyIsParseFailure ==
    (ret # NotRun /\ LacksKey(arg.data, arg.chart_id)) =>
        /\ ret.raised = "none"
        /\ ret.value = <<>>
        /\ Len(ret.errors) = 1
        /\ ret.errors[1][1] = "Failed to parse chart data"

\* 'series' is missing while two series are configured: no partial result.
C9_Witness ==
    /\ ret # NotRun
    /\ HasChartData(arg.data, arg.chart_id)
    /\ HasConfigs(ChartDataOf(arg.data, arg.chart_id))
    /\ Len(ConfigsOf(ChartDataOf(arg.data, arg.chart_id)).v) = 2
    /\ ~Has(ChartDataOf(arg.data, arg.chart_id), K("series"))
    /\ ret.value = <<>>
    /\ ret.errors = << <<"Failed to parse chart data", K("series")>> >>

(***************************************************************************)
(* Claims about extract_chart_id (checked under SpecUrl).                  *)
(***************************************************************************)
AllDigits(s, a, b) == a <= b /\ b <= Len(s) /\ \A k \in a..b : IsDigit(s[k])
NoSlash(s, a, b) == a <= b /\ b <= Len(s) /\ \A k \in a..b : s[k] # SLASH
EndsRun(s, e) == e = Len(s) \/ ~IsDigit(s[e + 1])

\* s = '.../charts/<digits>/anything' with <digits> = s[d..e]
IsChartsForm(s, d, e) ==
    /\ d > 3
    /\ LitAt(s, d - 3, <<SLASH, "charts", SLASH>>)
    /\ AllDigits(s, d, e)
    /\ LitAt(s, e + 1, <<SLASH>>)

\* s = '.../collections/<digits>/<slug>/<digits>/anything' with the second
\* <digits> = s[d..e]
IsCollectionsForm(s, d, e) ==
    /\ AllDigits(s, d, e)
    /\ LitAt(s, e + 1, <<SLASH>>)
    /\ \E c \in 1..Len(s) : \E g \in 1..Len(s) :
          /\ c > 3
          /\ LitAt(s, c - 3, <<SLASH, "collections", SLASH>>)
          /\ g > c /\ g + 2 < d
          /\ AllDigits(s, c, g - 1)
          /\ s[g] = SLASH
          /\ NoSlash(s, g + 1, d - 2)
          /\ s[d - 1] = SLASH

\* 'macromicro.me/charts/<digit>' occurs at p
ChartsOccursAt(s, p) ==
    LitAt(s, p, <<HOST, SLASH, "charts", SLASH>>) /\ AllDigits(s, p + 4, p + 4)

\* 'macromicro.me/collections/<digits>/<slug>/<digit>' occurs at p, the last
\* digit at position d
CollectionsOccursAt(s, p, d) ==
    /\ LitAt(s, p, <<HOST, SLASH, "collections", SLASH>>)
    /\ d >= p + 8
    /\ AllDigits(s, d, d)
    /\ s[d - 1] = SLASH
    /\ \E g \in (p + 5)..(d - 3) :
          /\ AllDigits(s, p + 4, g - 1)
          /\ s[g] = SLASH
          /\ NoSlash(s, g + 1, d - 2)

ChartsOccurs(s) == \E p \in 1..Len(s) : ChartsOccursAt(s, p)
CollectionsOccurs(s) == \E p \in 1..Len(s) : \E d \in 1..Len(s) : CollectionsOccursAt(s, p, d)

\* C10 as stated: every URL of the form '.../charts/<digits>/anything' yields
\* <digits>, every URL of the form
\* '.../collections/<digits>/<slug>/<digits>/anything' yields the second digit
\* group, and the result is absent exactly when neither pattern matches.
C10_AsStated ==
    ret # NotRun =>
        /\ \A d \in 1..Len(arg) : \A e \in d..Len(arg) :
              IsChartsForm(arg, d, e) => ret = Str(SubSeq(arg, d, e))
        /\ \A d \in 1..Len(arg) : \A e \in d..Len(arg) :
              IsCollectionsForm(arg, d, e) => ret = Str(SubSeq(arg, d, e))
        /\ (ret = None) <=> (~ChartsOccurs(arg) /\ ~CollectionsOccurs(arg))

\* C10 amended: the two forms are recognised only behind the host
\* 'macromicro.me'.  A URL in which 'macromicro.me/charts/<digits>' occurs
\* yields the digits of its leftmost occurrence; a URL in which it does not
\* occur and 'macromicro.me/collections/<digits>/<slug>/<digits>' occurs yields
\* the second digit group of the leftmost such occurrence, never the
\* collection id; the result is absent exactly when neither occurs.
C10_Amended ==
    ret # NotRun =>
        /\ \A p \in 1..Len(arg) :
              (ChartsOccursAt(arg, p) /\ \A q \in 1..(p - 1) : ~ChartsOccursAt(arg, q))
              => \E e \in (p + 4)..Len(arg) :
                    /\ AllDigits(arg, p + 4, e)
                    /\ EndsRun(arg, e)
                    /\ ret = Str(SubSeq(arg, p + 4, e))
        /\ ~ChartsOccurs(arg) =>
              \A p \in 1..Len(arg) : \A d \in 1..Len(arg) :
                  ( /\ CollectionsOccursAt(arg, p, d)
                    /\ \A q \in 1..(p - 1) : \A x \in 1..Len(arg) :
                          ~CollectionsOccursAt(arg, q, x) )
                  => \E e \in d..Len(arg) :
                        /\ AllDigits(arg, d, e)
                        /\ EndsRun(arg, e)
                        /\ ret = Str(SubSeq(arg, d, e))
        /\ (ret = None) <=> (~ChartsOccurs(arg) /\ ~CollectionsOccurs(arg))

\* A collections URL that also holds a charts match further right: the
\* charts pattern, tried first, decides.
C10_Witness ==
    /\ ret # NotRun
    /\ \E p \in 1..Len(arg) : \E d \in 1..Len(arg) : \E q \in 1..Len(arg) :
          /\ CollectionsOccursAt(arg, p, d)
          /\ q > d
          /\ ChartsOccursAt(arg, q)
          /\ ret = Str(<<arg[q + 4]>>)

(***************************************************************************)
(* Claims about the session (checked under Spec).                          *)
(***************************************************************************)
\* The URL of the last run matches one of the two patterns.
YieldsId(url) == ChartsOccurs(url) \/ CollectionsOccurs(url)

LoadedWithId(run) == run.op = "load" /\ YieldsId(run.input)

IsPrefix(a, b) == Len(a) <= Len(b) /\ SubSeq(b, 1, Len(a)) = a

\* What the data fetch of the run produced for identifier id: the series of a
\* well-formed body, nothing when the fetch or the parse failed.
SeriesProducedBy(run, id) ==
    IF run.data_response.ok /\ IsWellFormed(run.data_response.body, id)
    THEN get_series_info(run.data_response.body, id).value
    ELSE <<>>

ImageProducedBy(run) ==
    IF run.image_response.ok THEN Bytes(run.image_response.body) ELSE None

\* C1 as stated: after a Load Chart whose URL yields an identifier, the stored
\* identifier, series summaries and image bytes are those of this load
\* (empty / absent where this load's fetch or parse failed), never those of
\* a chart loaded before.
C1_SnapshotWhollyReplaced ==
    LoadedWithId(last) =>
        /\ chart_id = last.id
        /\ series_info = SeriesProducedBy(last, chart_id.v)
        /\ image_bytes = ImageProducedBy(last)

\* C2: a question in the Loaded state appends the user turn and then exactly
\* one assistant turn, the model's text or the error text; nothing is raised
\* and the chart snapshot is untouched, so the session stays Loaded.
C2_QuestionAppendsTwoTurns ==
    [][ (chart_id # None /\ last'.op = "question") =>
            /\ Len(messages') = Len(messages) + 2
            /\ IsPrefix(messages, messages')
            /\ messages'[Len(messages) + 1] = [role |-> "user", content |-> last'.input]
            /\ messages'[Len(messages) + 2].role = "assistant"
            /\ IF last'.errors = <<>>
               THEN messages'[Len(messages) + 2].content \in { o.text : o \in { x \in Outcomes : x.kind = "text" } }
               ELSE /\ messages'[Len(messages) + 2].content = last'.errors[1]
                    /\ last'.errors[1][1] = "Error generating response: "
            /\ last'.raised = "none"
            /\ chart_id' = chart_id
            /\ series_info' = series_info
            /\ image_bytes' = image_bytes ]_vars

\* A question answered by an error turn, and a further question after it.
C2_Witness ==
    /\ chart_id # None
    /\ last.op = "question"
    /\ Len(messages) = 4
    /\ messages[2].content[1] = "Error generating response: "
    /\ messages[3].role = "user"

\* C3: right after a Load Chart whose URL yields an identifier the transcript
\* is empty, whatever became of the two fetches; between two such loads the
\* transcript only grows at its end.
C3_TranscriptResetAndAppendOnly ==
    /\ [](LoadedWithId(last) => messages = <<>>)
    /\ [][ LoadedWithId(last') \/ IsPrefix(messages, messages') ]_vars

\* A reload on which both fetches failed.
C3_Witness ==
    /\ LoadedWithId(last)
    /\ ~last.data_response.ok
    /\ last.image_fetch # NoUrl
    /\ ~last.image_response.ok
    /\ messages = <<>>

\* C4 as stated: on a Load Chart whose URL yields an identifier both fetches
\* are attempted; a failed image fetch does not keep the series of the new
\* chart from being stored, and a failed data fetch or a parse failure does
\* not keep the image of the new chart from being stored.
C4_FetchesIndependent ==
    LoadedWithId(last) =>
        /\ last.data_fetch # NoUrl
        /\ last.image_fetch # NoUrl
        /\ (~last.image_response.ok /\ last.data_response.ok
              /\ IsWellFormed(last.data_response.body, chart_id.v))
           => series_info = SeriesProducedBy(last, chart_id.v)
        /\ (~last.data_response.ok
              \/ ~IsWellFormed(last.data_response.body, chart_id.v))
           => image_bytes = ImageProducedBy(last)

\* C5: with no chart loaded, no run of the script calls the analysis function
\* or touches the transcript.
C5_NoAnalysisWhenEmpty ==
    [][ chart_id = None =>
            /\ messages' = messages
            /\ ~last'.analyze
            /\ last'.request = NoRequest ]_vars

\* A question submitted while no chart is loaded.
C5_Witness ==
    /\ chart_id = None
    /\ last.op = "question"
    /\ messages = <<>>

\* C6: a Load Chart whose URL matches neither pattern leaves identifier,
\* series, image and transcript as they were, issues no fetch and shows one
\* error.
C6_InvalidUrlChangesNothing ==
    [][ (last'.op = "load" /\ ~YieldsId(last'.input)) =>
            /\ chart_id' = chart_id
            /\ series_info' = series_info
            /\ image_bytes' = image_bytes
            /\ messages' = messages
            /\ last'.data_fetch = NoUrl
            /\ last'.image_fetch = NoUrl
            /\ Len(last'.errors) = 1
            /\ last'.raised = "none" ]_vars

\* An invalid URL submitted while a chart with a transcript is loaded.
C6_Witness ==
    /\ last.op = "load"
    /\ ~YieldsId(last.input)
    /\ chart_id # None
    /\ Len(messages) > 0

\* C7: the request of an analysis call is the cached image, the formatted
\* series text and the question, in this order and nothing else, whatever
\* the transcript holds.
C7_RequestIsSelfContained ==
    last.analyze =>
        last.request = << [data |-> image_bytes, mime_type |-> "image/png"],
                          format_series_info(series_info),
                          last.input >>

\* The same question sent a second time, now with a transcript behind it.
C7_Witness ==
    /\ last.analyze
    /\ Len(messages) = 4
    /\ messages[1].content = last.input
    /\ messages[2].content = <<"answer">>
    /\ series_info # <<>>
    /\ image_bytes # None

====
